---- MODULE Spec2Model ----
(***************************************************************************)
(* lintrunner: one invocation of the command-line driver (src/main.rs,     *)
(* do_main and main) together with the library operations it calls         *)
(* (run ledger, staleness check, linter selection, the lint entry point    *)
(* with its concurrent linter execution and aggregation).                  *)
(*                                                                         *)
(* Option<T> is modelled as a set: {} is None, {v} is Some(v).             *)
(* Result<T> is a record: [kind |-> "Ok", code |-> c] or                    *)
(* [kind |-> "Err", err |-> e]; [kind |-> "Pending"] before it exists.     *)
(***************************************************************************)
EXTENDS Integers, Sequences, FiniteSets, TLC

\* ------------------------------------------------------------- bounds

\* Number of linters defined in the configuration file.
NumLinters == 2

\* ------------------------------------------------------------ helpers

None == {}

Some(v) == {v}

IsSome(o) == o # {}

Unwrap(o) == CHOOSE v \in o : TRUE

UnwrapOr(o, d) == IF o = {} THEN d ELSE CHOOSE v \in o : TRUE

Ok(c) == [kind |-> "Ok", code |-> c]

Err(e) == [kind |-> "Err", err |-> e]

Pending == [kind |-> "Pending"]

RECURSIVE Flatten(_)
Flatten(ss) == IF ss = <<>> THEN <<>> ELSE Head(ss) \o Flatten(Tail(ss))

RECURSIVE SelectSeqBy(_, _)
SelectSeqBy(s, keep) ==
  IF s = <<>> THEN <<>>
  ELSE IF Head(s).name \in keep
       THEN <<Head(s)>> \o SelectSeqBy(Tail(s), keep)
       ELSE SelectSeqBy(Tail(s), keep)

NamesOf(ls) == {ls[i].name : i \in 1..Len(ls)}

\* ------------------------------------------------------ input domains

AllNames == <<"FLAKE8", "BLACK", "CLANGFORMAT", "MYPY", "NOQA", "RUSTFMT">>

LinterNames == SubSeq(AllNames, 1, NumLinters)

NameSet == {LinterNames[i] : i \in 1..NumLinters}

RenderOpt == {"Default", "Json", "Oneline"}

SubCommand == {"Init", "Format", "Lint", "Rage"}

\* Values of --skip and --take after splitting on ','.
SkipChoices == {None, Some({LinterNames[1]})}

TakeChoices == {None, Some({LinterNames[1], "UNKNOWN"})}

ArgsDomain ==
  [ verbose         : {0, 1},
    apply_patches   : BOOLEAN,
    paths_cmd       : {None, Some("git grep -Il .")},
    paths_from      : {None, Some("paths.txt")},
    revision        : {None, Some("HEAD~1")},
    merge_base_with : {None, Some("master")},
    skip            : SkipChoices,
    take            : TakeChoices,
    output          : RenderOpt,
    cmd             : {None} \cup {Some(c) : c \in SubCommand},
    paths           : {<<>>, <<"a.py">>},
    tee_json        : {None, Some("out.json")},
    all_files       : BOOLEAN ]

\* clap's conflicts_with / conflicts_with_all declarations on Args; a conflict
\* rejects the command line whichever of the two options declares it.
Conflicts(a) ==
  LET cmd_   == IsSome(a.paths_cmd)
      from_  == IsSome(a.paths_from)
      rev_   == IsSome(a.revision)
      mbw_   == IsSome(a.merge_base_with)
      paths_ == a.paths # <<>>
  IN  \/ cmd_ /\ from_
      \/ rev_ /\ (paths_ \/ cmd_ \/ from_)
      \/ mbw_ /\ (paths_ \/ cmd_ \/ from_ \/ rev_)
      \/ paths_ /\ (cmd_ \/ from_)
      \/ a.all_files /\ (paths_ \/ cmd_ \/ from_ \/ rev_ \/ mbw_)

\* Args::parse() returns exactly the command lines without a conflict.
Accepted == {a \in ArgsDomain : ~Conflicts(a)}

\* The linters of a configuration file, in registration order.
ConfigLinters(fmt) ==
  [i \in 1..NumLinters |-> [name |-> LinterNames[i], is_formatter |-> LinterNames[i] \in fmt]]

\* Contents of the configuration file: LintRunnerConfig.
Configs ==
  {[linters |-> ConfigLinters(fmt), merge_base_with |-> m] :
     fmt \in SUBSET NameSet, m \in {"", "origin/main"}}

\* Issue sequences a linter emits, by severity (advice, warning, error).
IssueSeqs ==
  {<<>>, <<"advice">>, <<"warning">>, <<"error">>,
   <<"warning", "error">>, <<"advice", "warning">>}

\* What one linter process produces: LinterOutcome.
Outcomes ==
  {[kind |-> "Issues", issues |-> s] : s \in IssueSeqs}
    \cup {[kind |-> "ProcessFailure", issues |-> <<>>]}

\* ------------------------------------------- pure parts of do_main

\* cmd = args.cmd.unwrap_or(SubCommand::Lint)
CmdOf(a) == UnwrapOr(a.cmd, "Lint")

\* A driver that forgets the restriction to formatters.
AllLintersUnrestricted(cmd, cfg) == cfg.linters

\* The universe of linters to select from: only formatters when formatting.
AllLinters(cmd, cfg) ==
  IF cmd = "Format"
  THEN SelectSeqBy(cfg.linters, {l \in NamesOf(cfg.linters) :
                                   \E i \in 1..Len(cfg.linters) :
                                     cfg.linters[i].name = l /\ cfg.linters[i].is_formatter})
  ELSE cfg.linters

\* get_linters_from_config: skip removes first, take narrows what is left;
\* names that match no linter are ignored.
GetLintersFromConfig(all, skip, take) ==
  LET afterSkip == IF IsSome(skip) THEN NamesOf(all) \ Unwrap(skip) ELSE NamesOf(all)
      afterTake == IF IsSome(take) THEN afterSkip \cap Unwrap(take) ELSE afterSkip
  IN  SelectSeqBy(all, afterTake)

EnableSpinners(a) == a.verbose = 0 /\ a.output = "Default"

\* A driver that ignores the configuration's merge_base_with.
RevisionOptIgnoringConfig(a, cfg) ==
  IF IsSome(a.revision) THEN [kind |-> "Revision", rev |-> Unwrap(a.revision)]
  ELSE IF IsSome(a.merge_base_with)
       THEN [kind |-> "MergeBaseWith", rev |-> Unwrap(a.merge_base_with)]
       ELSE [kind |-> "Head", rev |-> ""]

RevisionOptOf(a, cfg) ==
  IF IsSome(a.revision) THEN [kind |-> "Revision", rev |-> Unwrap(a.revision)]
  ELSE IF IsSome(a.merge_base_with)
       THEN [kind |-> "MergeBaseWith", rev |-> Unwrap(a.merge_base_with)]
       ELSE IF cfg.merge_base_with # ""
            THEN [kind |-> "MergeBaseWith", rev |-> cfg.merge_base_with]
            ELSE [kind |-> "Head", rev |-> ""]

\* A driver that forgets the --all-files branch.
PathsOptWithoutAllFiles(a) ==
  IF IsSome(a.paths_from) THEN [kind |-> "PathsFile", arg |-> <<Unwrap(a.paths_from)>>]
  ELSE IF IsSome(a.paths_cmd) THEN [kind |-> "PathsCmd", arg |-> <<Unwrap(a.paths_cmd)>>]
  ELSE IF a.paths # <<>> THEN [kind |-> "Paths", arg |-> a.paths]
  ELSE [kind |-> "Auto", arg |-> <<>>]

\* The value of paths_opt when the --paths-from file, if given, is found.
PathsOptOf(a) ==
  IF IsSome(a.paths_from) THEN [kind |-> "PathsFile", arg |-> <<Unwrap(a.paths_from)>>]
  ELSE IF IsSome(a.paths_cmd) THEN [kind |-> "PathsCmd", arg |-> <<Unwrap(a.paths_cmd)>>]
  ELSE IF a.paths # <<>> THEN [kind |-> "Paths", arg |-> a.paths]
  ELSE IF a.all_files THEN [kind |-> "AllFiles", arg |-> <<>>]
  ELSE [kind |-> "Auto", arg |-> <<>>]

\* The arguments of a do_lint call.
LintCall(ls, po, apply, out, spin, ro, tee) ==
  [linters |-> ls, paths_opt |-> po, apply_patches |-> apply, output |-> out,
   enable_spinners |-> spin, revision_opt |-> ro, tee_json |-> tee]

\* An exit info that records code 0 for a failed run.
ExitInfoAlwaysZero(r) ==
  IF r.kind = "Ok" THEN [code |-> r.code, err |-> None]
  ELSE [code |-> 0, err |-> Some(r.err)]

ExitInfoOf(r) ==
  IF r.kind = "Ok" THEN [code |-> r.code, err |-> None]
  ELSE [code |-> 1, err |-> Some(r.err)]

\* A main that exits 0 after printing the error.
MainCodeErrIsZero(r) == IF r.kind = "Ok" THEN r.code ELSE 0

\* main: the process exit code for do_main's result.
MainCode(r) == IF r.kind = "Ok" THEN r.code ELSE 1

\* ------------------------------------------------------- run ledger

\* PersistentDataStore::new: the entry of this run, with its RunInfo and no
\* exit info yet, appended as the latest.
AppendRunInfo(l, run_info) ==
  Append(l, [args |-> run_info.args, timestamp |-> run_info.timestamp, exit |-> None])

\* write_run_info: the latest entry finalized with the exit info.
FinalizeRunInfo(l, exit_info) == [l EXCEPT ![Len(l)].exit = Some(exit_info)]

\* check_init_changed: the stored fingerprint equals the current one, differs
\* from it (a warning, no error), or cannot be read (an error).
CheckResults == {"equal", "differ", "unreadable"}

\* do_init and do_rage return a code or an error.
InitResults == {Ok(0), Err("InitError")}

RageResults == {Ok(0), Err("NoSuchInvocation")}

\* --------------------------------------------- aggregation (lint entry)

\* The outcome a linter put on the results channel.
OutcomeOf(results, name) ==
  results[CHOOSE i \in 1..Len(results) : results[i].name = name].outcome

\* The stream entries of one linter's outcome: its issues in emission order,
\* or the single failing entry of a process failure.
Entries(name, outcome) ==
  IF outcome.kind = "ProcessFailure"
  THEN <<[linter |-> name, kind |-> "failure", severity |-> "error", pos |-> 0]>>
  ELSE [i \in 1..Len(outcome.issues) |->
          [linter |-> name, kind |-> "issue", severity |-> outcome.issues[i], pos |-> i]]

\* An aggregator that reads the results channel in completion order.
MergeByCompletion(order, results) ==
  Flatten([i \in 1..Len(results) |-> Entries(results[i].name, results[i].outcome)])

\* The aggregated stream: by linter registration order, then emission order.
Merge(order, results) ==
  Flatten([i \in 1..Len(order) |-> Entries(order[i].name, OutcomeOf(results, order[i].name))])

\* One rendered line per entry, in the stream's order, in the given format.
Render(fmt, stream) == [i \in 1..Len(stream) |-> [format |-> fmt, entry |-> stream[i]]]

\* The lint entry point's code: 1 for an error issue or a process failure.
LintExitCode(stream) ==
  IF \E i \in 1..Len(stream) : stream[i].kind = "failure" \/ stream[i].severity = "error"
  THEN 1 ELSE 0

\* -------------------------------------------------------------- state

VARIABLES
  pc,           \* position in main / do_main / the lint entry point
  args,         \* the parsed command line
  config_file,  \* what LintRunnerConfig::new loads
  tools,        \* linter name -> what that linter's process produces
  matching,     \* the linters whose globs match some target path
  workers,      \* size of the worker pool (the available parallelism)
  ledger,       \* the run ledger: entries, latest last
  linters,      \* the selected linters
  revision_opt,
  paths_opt,
  stale_check,  \* result of check_init_changed
  warned,       \* a staleness warning was surfaced
  lint_call,    \* Option: the arguments do_lint was called with
  scheduled,    \* linters with a non-empty input set, registration order
  status,       \* scheduled linter name -> "queued" | "running" | "done"
  results,      \* the results channel, in completion order
  rendered,     \* the terminal output of the issue stream
  tee_out,      \* Option: the json rendering written to the tee file
  res,          \* the dispatched subcommand's result
  ret,          \* do_main's result
  exit_code,    \* Option: the code the process exited with
  printed       \* number of print_error calls

vars ==
  <<pc, args, config_file, tools, matching, workers, ledger, linters, revision_opt, paths_opt,
    stale_check, warned, lint_call, scheduled, status, results, rendered,
    tee_out, res, ret, exit_code, printed>>

NoOpt == [kind |-> "Unset"]

InitRest ==
  /\ pc = "config_path"
  /\ ledger = <<>>
  /\ linters = <<>>
  /\ revision_opt = NoOpt
  /\ paths_opt = NoOpt
  /\ stale_check = "not_run"
  /\ warned = FALSE
  /\ lint_call = None
  /\ scheduled = <<>>
  /\ status = <<>>
  /\ results = <<>>
  /\ rendered = <<>>
  /\ tee_out = None
  /\ res = Pending
  /\ ret = Pending
  /\ exit_code = None
  /\ printed = 0

\* One linter behaviour for every configured linter.
Toolsets == [NameSet -> Outcomes]

\* Every accepted command line and configuration; every linter has input and
\* reports nothing.
Init ==
  /\ args \in Accepted
  /\ config_file \in Configs
  /\ tools = [n \in NameSet |-> [kind |-> "Issues", issues |-> <<>>]]
  /\ matching = NameSet
  /\ workers = 1
  /\ InitRest

\* Every linter behaviour within the bounds; a plain lint or format command line.
InitRun ==
  /\ args \in {a \in Accepted :
                 /\ a.verbose = 0 /\ a.output = "Json" /\ ~a.apply_patches
                 /\ a.skip = None /\ a.take = None
                 /\ a.tee_json = None /\ ~a.all_files /\ a.cmd # Some("Lint")
                 /\ a.paths_cmd = None /\ a.paths_from = None /\ a.paths = <<>>
                 /\ a.revision = None /\ a.merge_base_with = None}
  /\ config_file \in {c \in Configs : c.merge_base_with = "" /\ c.linters[1].is_formatter
                                       /\ \A i \in 2..NumLinters : ~c.linters[i].is_formatter}
  /\ tools \in Toolsets
  /\ matching \in SUBSET NameSet
  /\ workers \in 1..NumLinters
  /\ InitRest

\* ------------------------------------------------------------ do_main

\* do_main returns early with an error: what `?` does.
Return(e) ==
  /\ ret' = Err(e)
  /\ pc' = "main"

\* AbsPath::try_from(&args.config)
ConfigPath ==
  /\ pc = "config_path"
  /\ \E found \in BOOLEAN :
       IF found THEN pc' = "new_store" /\ ret' = ret
       ELSE Return("ConfigError")
  /\ UNCHANGED <<args, config_file, tools, matching, workers, ledger, linters, revision_opt, paths_opt,
                 stale_check, warned, lint_call, scheduled, status, results, rendered,
                 tee_out, res, exit_code, printed>>

\* run_info, then PersistentDataStore::new(&config_path, run_info)?
NewStore ==
  /\ pc = "new_store"
  /\ \E ok \in BOOLEAN :
       IF ok
       THEN /\ ledger' = AppendRunInfo(ledger, [args |-> args, timestamp |-> "now"])
            /\ pc' = "setup_logger"
            /\ ret' = ret
       ELSE /\ Return("LedgerError")
            /\ ledger' = ledger
  /\ UNCHANGED <<args, config_file, tools, matching, workers, linters, revision_opt, paths_opt,
                 stale_check, warned, lint_call, scheduled, status, results, rendered,
                 tee_out, res, exit_code, printed>>

\* setup_logger(log_level, &persistent_data_store.log_file(), args.force_color)
SetupLogger ==
  /\ pc = "setup_logger"
  /\ \E ok \in BOOLEAN :
       IF ok THEN pc' = "get_head" /\ ret' = ret
       ELSE Return("LoggerError")
  /\ UNCHANGED <<args, config_file, tools, matching, workers, ledger, linters, revision_opt, paths_opt,
                 stale_check, warned, lint_call, scheduled, status, results, rendered,
                 tee_out, res, exit_code, printed>>

\* debug!("Current rev: {}", get_head()?)
GetHead ==
  /\ pc = "get_head"
  /\ \E ok \in BOOLEAN :
       IF ok THEN pc' = "load_config" /\ ret' = ret
       ELSE Return("RevisionResolutionError")
  /\ UNCHANGED <<args, config_file, tools, matching, workers, ledger, linters, revision_opt, paths_opt,
                 stale_check, warned, lint_call, scheduled, status, results, rendered,
                 tee_out, res, exit_code, printed>>

\* LintRunnerConfig::new(&config_path)
LoadConfig ==
  /\ pc = "load_config"
  /\ \E ok \in BOOLEAN :
       IF ok THEN pc' = "select_linters" /\ ret' = ret
       ELSE Return("ConfigError")
  /\ UNCHANGED <<args, config_file, tools, matching, workers, ledger, linters, revision_opt, paths_opt,
                 stale_check, warned, lint_call, scheduled, status, results, rendered,
                 tee_out, res, exit_code, printed>>

\* all_linters, then get_linters_from_config(all_linters, skipped, taken, ..)
SelectLinters ==
  /\ pc = "select_linters"
  /\ \E ok \in BOOLEAN :
       IF ok
       THEN /\ linters' = GetLintersFromConfig(AllLinters(CmdOf(args), config_file),
                                               args.skip, args.take)
            /\ pc' = "resolve_opts"
            /\ ret' = ret
       ELSE /\ Return("LinterSelectionError")
            /\ linters' = linters
  /\ UNCHANGED <<args, config_file, tools, matching, workers, ledger, revision_opt, paths_opt,
                 stale_check, warned, lint_call, scheduled, status, results, rendered,
                 tee_out, res, exit_code, printed>>

\* revision_opt, then paths_opt; a --paths-from file that is not found fails.
ResolveOpts ==
  /\ pc = "resolve_opts"
  /\ revision_opt' = RevisionOptOf(args, config_file)
  /\ \E found \in BOOLEAN :
       IF found \/ args.paths_from = None
       THEN /\ paths_opt' = PathsOptOf(args)
            /\ pc' = "dispatch"
            /\ ret' = ret
       ELSE /\ Return("PathSourceError")
            /\ paths_opt' = paths_opt
  /\ UNCHANGED <<args, config_file, tools, matching, workers, ledger, linters,
                 stale_check, warned, lint_call, scheduled, status, results, rendered,
                 tee_out, res, exit_code, printed>>

\* SubCommand::Init: do_init(linters, dry_run, &persistent_data_store, &config_path)
DoInit ==
  /\ pc = "dispatch"
  /\ CmdOf(args) = "Init"
  /\ res' \in InitResults
  /\ pc' = "write_run_info"
  /\ UNCHANGED <<args, config_file, tools, matching, workers, ledger, linters, revision_opt, paths_opt,
                 stale_check, warned, lint_call, scheduled, status, results, rendered,
                 tee_out, ret, exit_code, printed>>

\* SubCommand::Rage: do_rage(&persistent_data_store, invocation)
DoRage ==
  /\ pc = "dispatch"
  /\ CmdOf(args) = "Rage"
  /\ res' \in RageResults
  /\ pc' = "write_run_info"
  /\ UNCHANGED <<args, config_file, tools, matching, workers, ledger, linters, revision_opt, paths_opt,
                 stale_check, warned, lint_call, scheduled, status, results, rendered,
                 tee_out, ret, exit_code, printed>>

\* check_init_changed(&persistent_data_store, &lint_runner_config)?, first in
\* the Format and Lint arms: an error leaves do_main.
CheckInitChanged ==
  /\ pc = "dispatch"
  /\ CmdOf(args) \in {"Format", "Lint"}
  /\ \E r \in CheckResults :
       /\ stale_check' = r
       /\ warned' = (r = "differ")
       /\ IF r = "unreadable"
          THEN Return("LedgerError")
          ELSE pc' = "do_lint" /\ ret' = ret
  /\ UNCHANGED <<args, config_file, tools, matching, workers, ledger, linters, revision_opt, paths_opt,
                 lint_call, scheduled, status, results, rendered,
                 tee_out, res, exit_code, printed>>

\* SubCommand::Format: do_lint with apply_patches = true
FormatArm ==
  /\ pc = "do_lint"
  /\ CmdOf(args) = "Format"
  /\ lint_call' = Some(LintCall(linters, paths_opt, TRUE, args.output,
                                EnableSpinners(args), revision_opt, args.tee_json))
  /\ pc' = "resolve_paths"
  /\ UNCHANGED <<args, config_file, tools, matching, workers, ledger, linters, revision_opt, paths_opt,
                 stale_check, warned, scheduled, status, results, rendered,
                 tee_out, res, ret, exit_code, printed>>

\* SubCommand::Lint: do_lint with args.apply_patches
LintArm ==
  /\ pc = "do_lint"
  /\ CmdOf(args) = "Lint"
  /\ lint_call' = Some(LintCall(linters, paths_opt, args.apply_patches, args.output,
                                EnableSpinners(args), revision_opt, args.tee_json))
  /\ pc' = "resolve_paths"
  /\ UNCHANGED <<args, config_file, tools, matching, workers, ledger, linters, revision_opt, paths_opt,
                 stale_check, warned, scheduled, status, results, rendered,
                 tee_out, res, ret, exit_code, printed>>

\* ----------------------------------------------------- lint entry point

\* The error a path selection can fail with.
PathError(po) == IF po.kind \in {"PathsFile", "PathsCmd", "Paths"}
                 THEN "PathSourceError" ELSE "RevisionResolutionError"

\* Path Resolver and Linter Registry View: the target paths are resolved (or
\* the run fails with no linter run), and the linters whose globs match some
\* target path are scheduled, in registration order.
ResolvePaths ==
  /\ pc = "resolve_paths"
  /\ LET call == Unwrap(lint_call) IN
     \/ /\ res' = Err(PathError(call.paths_opt))
        /\ pc' = "write_run_info"
        /\ UNCHANGED <<scheduled, status>>
     \/ /\ scheduled' = SelectSeqBy(call.linters, matching)
        /\ status' = [n \in NamesOf(call.linters) \cap matching |-> "queued"]
        /\ pc' = "running"
        /\ res' = res
  /\ UNCHANGED <<args, config_file, tools, matching, workers, ledger, linters, revision_opt, paths_opt,
                 stale_check, warned, lint_call, results, rendered,
                 tee_out, ret, exit_code, printed>>

\* A free worker of the pool takes a queued linter and spawns its process.
StartLinter(n) ==
  /\ pc = "running"
  /\ n \in DOMAIN status
  /\ status[n] = "queued"
  /\ Cardinality({m \in DOMAIN status : status[m] = "running"}) < workers
  /\ status' = [status EXCEPT ![n] = "running"]
  /\ UNCHANGED <<pc, args, config_file, tools, matching, workers, ledger, linters, revision_opt, paths_opt,
                 stale_check, warned, lint_call, scheduled, results, rendered,
                 tee_out, res, ret, exit_code, printed>>

\* A linter process ends; its outcome goes onto the results channel.
FinishLinter(n) ==
  /\ pc = "running"
  /\ n \in DOMAIN status
  /\ status[n] = "running"
  /\ status' = [status EXCEPT ![n] = "done"]
  /\ results' = Append(results, [name |-> n, outcome |-> tools[n]])
  /\ UNCHANGED <<pc, args, config_file, tools, matching, workers, ledger, linters, revision_opt, paths_opt,
                 stale_check, warned, lint_call, scheduled, rendered,
                 tee_out, res, ret, exit_code, printed>>

\* All linters joined: merge, render, tee, and derive the exit code.
Aggregate ==
  /\ pc = "running"
  /\ \A n \in DOMAIN status : status[n] = "done"
  /\ LET call   == Unwrap(lint_call)
         stream == Merge(scheduled, results)
     IN  /\ rendered' = Render(call.output, stream)
         /\ tee_out' = IF IsSome(call.tee_json) THEN Some(Render("Json", stream)) ELSE None
         /\ res' = Ok(LintExitCode(stream))
  /\ pc' = "write_run_info"
  /\ UNCHANGED <<args, config_file, tools, matching, workers, ledger, linters, revision_opt, paths_opt,
                 stale_check, warned, lint_call, scheduled, status, results,
                 ret, exit_code, printed>>

\* --------------------------------------------------- end of do_main, main

\* exit_info, then persistent_data_store.write_run_info(exit_info)?; res
WriteRunInfo ==
  /\ pc = "write_run_info"
  /\ \E ok \in BOOLEAN :
       IF ok
       THEN /\ ledger' = FinalizeRunInfo(ledger, ExitInfoOf(res))
            /\ ret' = res
       ELSE /\ ledger' = ledger
            /\ ret' = Err("LedgerError")
  /\ pc' = "main"
  /\ UNCHANGED <<args, config_file, tools, matching, workers, linters, revision_opt, paths_opt,
                 stale_check, warned, lint_call, scheduled, status, results, rendered,
                 tee_out, res, exit_code, printed>>

\* main: print the error, if any, and exit.
Main ==
  /\ pc = "main"
  /\ printed' = IF ret.kind = "Err" THEN printed + 1 ELSE printed
  /\ exit_code' = Some(MainCode(ret))
  /\ pc' = "exited"
  /\ UNCHANGED <<args, config_file, tools, matching, workers, ledger, linters, revision_opt, paths_opt,
                 stale_check, warned, lint_call, scheduled, status, results, rendered,
                 tee_out, res, ret>>

Next ==
  \/ ConfigPath
  \/ NewStore
  \/ SetupLogger
  \/ GetHead
  \/ LoadConfig
  \/ SelectLinters
  \/ ResolveOpts
  \/ DoInit
  \/ DoRage
  \/ CheckInitChanged
  \/ FormatArm
  \/ LintArm
  \/ ResolvePaths
  \/ \E n \in NameSet : StartLinter(n)
  \/ \E n \in NameSet : FinishLinter(n)
  \/ Aggregate
  \/ WriteRunInfo
  \/ Main

\* Every accepted command line and configuration.
Spec == Init /\ [][Next]_vars

\* Every linter behaviour and every completion order.
SpecRun == InitRun /\ [][Next]_vars

\* ------------------------------------------------------------- claims

Exited == pc = "exited"

IsLintCmd == CmdOf(args) \in {"Format", "Lint"}

\* The entry of this run exists and holds its exit info.
Finalized == Len(ledger) = 1 /\ IsSome(ledger[1].exit)

\* do_lint has returned a code: the linters ran and the stream was rendered.
LintCompleted == lint_call # None /\ res.kind = "Ok"

\* No scheduled linter failed and none reported an issue of severity error.
NoFailingOutcome ==
  \A i \in 1..Len(scheduled) :
    LET o == tools[scheduled[i].name]
    IN  o.kind = "Issues" /\ \A j \in 1..Len(o.issues) : o.issues[j] # "error"

NoLinterRan == results = <<>> /\ \A n \in DOMAIN status : status[n] = "queued"

\* C1: a lint or format invocation whose linting ran to completion exits with
\* the code the lint entry point returned, which is 0 exactly when no issue
\* has severity error and no linter outcome is a ProcessFailure, and 1 otherwise.
C1_ExitCodeContract ==
  Exited /\ IsLintCmd /\ LintCompleted =>
    /\ exit_code = Some(res.code)
    /\ exit_code = Some(IF NoFailingOutcome THEN 0 ELSE 1)

\* C2: every invocation that exits has appended one ledger entry and has
\* finalized it with its exit info, whatever the subcommand and also when it
\* ends in a fatal error.
C2_EveryExitFinalized == Exited => Finalized

\* C3: a ledger failure never blocks or alters lint/format: when creating the
\* store fails, linting still runs; when the final write fails, the exit code
\* is the one the lint entry point returned.
C3_LedgerErrorNeverBlocks ==
  Exited /\ IsLintCmd =>
    /\ (ledger = <<>> /\ ret = Err("LedgerError") => lint_call # None)
    /\ (LintCompleted /\ ~Finalized => exit_code = Some(res.code))

\* C4: in a lint or format invocation the staleness check runs before the lint
\* entry point, and whatever its result the lint entry point is then invoked;
\* a warning is surfaced exactly when the fingerprints differ.
C4_StalenessNeverPreventsLint ==
  /\ (lint_call # None => stale_check # "not_run")
  /\ (stale_check # "not_run" /\ Exited => lint_call # None)
  /\ (warned <=> stale_check = "differ")

FatalErrors == {"ConfigError", "PathSourceError", "RevisionResolutionError"}

FatalOccurred ==
  \/ ret.kind = "Err" /\ ret.err \in FatalErrors
  \/ res.kind = "Err" /\ res.err \in FatalErrors

\* C5: an invocation in which a fatal error (ConfigError, PathSourceError,
\* RevisionResolutionError) occurred has run no linter, has printed exactly
\* one error message and exits with code 1.
C5_FatalErrorAborts ==
  /\ (FatalOccurred => NoLinterRan)
  /\ (Exited /\ FatalOccurred => printed = 1 /\ exit_code = Some(1))

C5_Witness ==
  Exited /\ lint_call # None /\ res = Err("PathSourceError") /\ Finalized

\* The formatters of a configuration, in registration order.
Formatters(cfg) == SelectSeq(cfg.linters, LAMBDA l : l.is_formatter)

\* What the Lint arm passes to do_lint for command line a and configuration
\* linters ls.
LintInvocation(a, ls, cfg) ==
  LintCall(GetLintersFromConfig(ls, a.skip, a.take), PathsOptOf(a), a.apply_patches,
           a.output, EnableSpinners(a), RevisionOptOf(a, cfg), a.tee_json)

\* C6: a format invocation calls do_lint exactly as a lint invocation with
\* --apply-patches would over a configuration holding only the formatters:
\* patches are applied whatever the flag, the linters are the formatters that
\* pass skip/take, no non-formatter is scheduled, and the path selector,
\* revision selector, output format and tee file are those lint passes.
C6_FormatIsLintOverFormatters ==
  /\ lint_call # None /\ CmdOf(args) = "Format" =>
       /\ Unwrap(lint_call) =
            LintInvocation([args EXCEPT !.apply_patches = TRUE],
                           Formatters(config_file), config_file)
       /\ Unwrap(lint_call).apply_patches
       /\ \A i \in 1..Len(Unwrap(lint_call).linters) :
            /\ Unwrap(lint_call).linters[i].is_formatter
            /\ IsSome(args.skip) => Unwrap(lint_call).linters[i].name \notin Unwrap(args.skip)
            /\ IsSome(args.take) => Unwrap(lint_call).linters[i].name \in Unwrap(args.take)
       /\ \A i \in 1..Len(scheduled) : scheduled[i].is_formatter
  /\ lint_call # None /\ CmdOf(args) = "Lint" =>
       Unwrap(lint_call) = LintInvocation(args, config_file.linters, config_file)

C6_Witness ==
  /\ Exited /\ CmdOf(args) = "Format" /\ ~args.apply_patches
  /\ \E i \in 1..NumLinters : ~config_file.linters[i].is_formatter
  /\ Len(scheduled) >= 1 /\ IsSome(args.take) /\ args.tee_json # None
  /\ results # <<>>

\* No path option and no revision option on the command line.
NoSelector(a) ==
  /\ a.paths_from = None /\ a.paths_cmd = None /\ a.paths = <<>> /\ ~a.all_files
  /\ a.revision = None /\ a.merge_base_with = None

\* The revision selector when the command line names none.
DefaultRevision(cfg) ==
  IF cfg.merge_base_with = "" THEN [kind |-> "Head", rev |-> ""]
  ELSE [kind |-> "MergeBaseWith", rev |-> cfg.merge_base_with]

\* C7 as stated: with no path selector and no revision selector on the command
\* line, the lint entry point diffs against HEAD, for every configuration.
C7_DefaultsToHead ==
  lint_call # None /\ NoSelector(args) =>
    /\ Unwrap(lint_call).paths_opt.kind = "Auto"
    /\ Unwrap(lint_call).revision_opt.kind = "Head"

\* C7 amended: with no path selector and no revision selector on the command
\* line, the lint entry point diffs against HEAD when the configuration sets no
\* merge_base_with, and against the merge base with the configured revision
\* when it does.
C7_DefaultsToHeadOrConfig ==
  lint_call # None /\ NoSelector(args) =>
    /\ Unwrap(lint_call).paths_opt.kind = "Auto"
    /\ Unwrap(lint_call).revision_opt = DefaultRevision(config_file)

C7_Witness ==
  /\ Exited /\ LintCompleted /\ NoSelector(args)
  /\ config_file.merge_base_with = ""
  /\ Unwrap(lint_call).revision_opt.kind = "Head"

ExplicitKinds == {"PathsFile", "PathsCmd", "Paths", "AllFiles"}

\* The path selector by precedence: --paths-from, --paths-cmd, positional
\* paths, --all-files, else automatic.
SelectorByPrecedence(a, po) ==
  /\ IsSome(a.paths_from) => po.kind = "PathsFile" /\ po.arg = <<Unwrap(a.paths_from)>>
  /\ a.paths_from = None /\ IsSome(a.paths_cmd) =>
       po.kind = "PathsCmd" /\ po.arg = <<Unwrap(a.paths_cmd)>>
  /\ a.paths_from = None /\ a.paths_cmd = None /\ a.paths # <<>> =>
       po.kind = "Paths" /\ po.arg = a.paths
  /\ a.paths_from = None /\ a.paths_cmd = None /\ a.paths = <<>> /\ a.all_files =>
       po.kind = "AllFiles"
  /\ a.paths_from = None /\ a.paths_cmd = None /\ a.paths = <<>> /\ ~a.all_files =>
       po.kind = "Auto"

\* C9 as stated: the one path selector passed to the lint entry point is the
\* one precedence picks, and an explicit selector always comes with AtHead.
C9_ExplicitMeansHead ==
  lint_call # None =>
    /\ SelectorByPrecedence(args, Unwrap(lint_call).paths_opt)
    /\ (Unwrap(lint_call).paths_opt.kind \in ExplicitKinds =>
          Unwrap(lint_call).revision_opt.kind = "Head")

\* C9 amended: the one path selector passed to the lint entry point is the one
\* precedence picks, and an explicit selector never comes with a revision
\* selector from the command line: it comes with AtHead, or with the merge base
\* of the configuration's merge_base_with when the configuration sets one.
C9_ExplicitMeansNoCommandLineRevision ==
  lint_call # None =>
    /\ SelectorByPrecedence(args, Unwrap(lint_call).paths_opt)
    /\ (Unwrap(lint_call).paths_opt.kind \in ExplicitKinds =>
          /\ args.revision = None /\ args.merge_base_with = None
          /\ Unwrap(lint_call).revision_opt = DefaultRevision(config_file))

C9_Witness ==
  /\ Exited /\ LintCompleted
  /\ args.all_files /\ Unwrap(lint_call).paths_opt.kind = "AllFiles"
  /\ Unwrap(lint_call).revision_opt.kind = "Head"

\* Position of a linter in the configuration: its registration order.
RegIndex(name) ==
  CHOOSE i \in 1..Len(config_file.linters) : config_file.linters[i].name = name

\* The entries the scheduled linters' processes produce, linter by linter in
\* registration order: no reference to the order of completion.
StreamOfOutcomes ==
  Flatten([i \in 1..Len(scheduled) |->
             Entries(scheduled[i].name, tools[scheduled[i].name])])

C10_RecordedCodeIsExitCode ==
  Finalized =>
    LET info == Unwrap(ledger[1].exit)
    IN  /\ IsSome(info.err) <=> res.kind = "Err"
        /\ res.kind = "Err" => info.code = 1 /\ info.err = Some(res.err)
        /\ Exited => exit_code = Some(info.code)

C10_Witness ==
  Exited /\ Finalized /\ res.kind = "Err" /\ exit_code = Some(1)

====
